---- MODULE Spec2Model ----
(***************************************************************************)
(* Model of the radix client facade (client.go): Command, multiCommand     *)
(* (MultiCommand / Transaction), the Async* wrappers, Close and            *)
(* Subscription, running on a connection pool shared by concurrent         *)
(* callers.                                                                *)
(*                                                                         *)
(* client.go is the only file of the package at hand.  The collaborators   *)
(* it calls (connectionPool.pull/push, connection.command/close,           *)
(* MultiCommand.process, Future.setReply, newSubscription) are modelled    *)
(* from the specification's contract for them (sections 4.2, 4.4, 4.5, 6). *)
(***************************************************************************)
EXTENDS Integers, Sequences, FiniteSets

\* ---- bounds of the model ----
NumThreads == 2      \* concurrently running callers / spawned goroutines
MaxPoolSize == 2     \* largest configured PoolSize explored
MaxBatch == 2        \* longest command sequence a build callback queues
MaxInt == 2          \* Database and PoolSize of a Configuration range over -MaxInt..MaxInt
MaxMsgs == 2         \* messages arriving on one channel of a subscription

Threads == 1..NumThreads
Nil == 0             \* the nil *connection
NoErr == "none"      \* a nil *Error
NoValue == "none"    \* a Reply without a value
AcqErr == "acquisition"
CmdErr == "command"
SubErr == "handshake"

Cmds == {"SET", "FAIL"}
Handlers == {"nil", "handler"}

VARIABLES
    PoolSize,    \* c.configuration.PoolSize after checkConfiguration
    idle,        \* pool: idle[c] = number of entries of connection c in the pool
    closed,      \* closed[c] = number of close() invocations on connection c
    dedicated,   \* connections withdrawn for a live subscription
    pc,          \* pc[t]: position of thread t in its current call
    op,          \* op[t]: the Client method thread t runs
    async,       \* async[t]: the call runs in a goroutine spawned by an Async* method
    arg,         \* arg[t]: the cmd of Command, the msgHdlr of Subscription
    conn,        \* conn[t]: the local variable conn of the running method
    r,           \* r[t]: the *Reply (or *Error) the method returns
    fut,         \* fut[t]: the Future handed out by the Async* call of slot t
    mc,          \* mc[t]: the MultiCommand of the running batch
    poolUsage,   \* poolUsage[t]: Close's local counter
    lease,       \* the connection thread t holds a lease on (Nil: none)
    pulls,       \* history: connections this call's pulls returned
    pushes,      \* history: pushes of this call that returned its leased connection
    strays,      \* history: pushes of this call of anything but its leased connection
    attempts,    \* history: pool.pull invocations of this call
    codecRuns,   \* history: codec / batch executor invocations of this call
    closes,      \* history: conn.close() invocations of this call
    seq,         \* history: the current run of sequential (non-overlapping) calls
    given,       \* the Configuration passed to NewClient
    conf,        \* NewClient's conf, which checkConfiguration works on
    client,      \* what NewClient has created: the Client, its pool
    ncpc,        \* position of NewClient
    inbound,     \* messages arrived on a subscription's connection, oldest first
    handled      \* history: the messages the handler was invoked with, in order

\* the variables of the Client, its pool and the calls on it
clientVars == <<PoolSize, idle, closed, dedicated, pc, op, async, arg, conn, r, fut, mc,
                poolUsage, lease, pulls, pushes, strays, attempts, codecRuns, closes,
                seq>>

\* the variables of NewClient
confVars == <<given, conf, client, ncpc>>

\* the variables of a subscription's message delivery
subVars == <<inbound, handled>>

vars == <<PoolSize, idle, closed, dedicated, pc, op, async, arg, conn, r, fut, mc,
          poolUsage, lease, pulls, pushes, strays, attempts, codecRuns, closes, seq,
          confVars, subVars>>

\* the variables of the pool and of its connections
poolVars == <<idle, closed, dedicated>>

AllConns == 1..MaxPoolSize

EmptyReply == [value |-> NoValue, err |-> NoErr]
ErrReply(e) == [value |-> NoValue, err |-> e]
ValReply(v) == [value |-> v, err |-> NoErr]

\* a Future: made by newFuture, written by setReply, read by whoever holds it
NoFuture == [made |-> FALSE, writes |-> 0, reply |-> EmptyReply, read |-> FALSE]
NewFuture == [made |-> TRUE, writes |-> 0, reply |-> EmptyReply, read |-> FALSE]

NoSeq == [live |-> FALSE, kind |-> "none", base |-> 0, who |-> 0]

NoBatch == [state |-> "none", transaction |-> FALSE, queued |-> <<>>, failed |-> FALSE,
            commits |-> 0, rollbacks |-> 0, conn |-> Nil]

\* ---- Configuration ----
DefaultAddress == "127.0.0.1:6379"
DefaultPoolSize == 10

\* Configuration{}: the zero value (the fields checkConfiguration reads)
EmptyConfiguration == [Address |-> "", Path |-> "", Database |-> 0, PoolSize |-> 0]

\* what Configuration{} becomes
DefaultConfiguration ==
    [Address |-> DefaultAddress, Path |-> "", Database |-> 0, PoolSize |-> DefaultPoolSize]

PcValues == {"ready", "pull", "command", "build", "send", "push", "close",
             "setReply", "subscribe", "handshake", "subret", "ret", "panic"}
OpValues == {"none", "Command", "MultiCommand", "Transaction", "Close", "Subscription"}

TypeOK ==
    /\ PoolSize \in 1..MaxPoolSize
    /\ idle \in [AllConns -> Nat]
    /\ closed \in [AllConns -> Nat]
    /\ dedicated \subseteq AllConns
    /\ pc \in [Threads -> PcValues]
    /\ op \in [Threads -> OpValues]
    /\ async \in [Threads -> BOOLEAN]
    /\ conn \in [Threads -> AllConns \cup {Nil}]
    /\ lease \in [Threads -> AllConns \cup {Nil}]
    /\ poolUsage \in [Threads -> Nat]

\* ---- the state after NewClient ----
\* NewClient leaves a Client whose pool holds PoolSize idle connections; no call
\* is running.  PoolSize is >= 1 after checkConfiguration.
Init ==
    /\ PoolSize \in 1..MaxPoolSize
    /\ idle = [c \in AllConns |-> IF c <= PoolSize THEN 1 ELSE 0]
    /\ closed = [c \in AllConns |-> 0]
    /\ dedicated = {}
    /\ pc = [t \in Threads |-> "ready"]
    /\ op = [t \in Threads |-> "none"]
    /\ async = [t \in Threads |-> FALSE]
    /\ arg = [t \in Threads |-> "none"]
    /\ conn = [t \in Threads |-> Nil]
    /\ r = [t \in Threads |-> EmptyReply]
    /\ fut = [t \in Threads |-> NoFuture]
    /\ mc = [t \in Threads |-> NoBatch]
    /\ poolUsage = [t \in Threads |-> 0]
    /\ lease = [t \in Threads |-> Nil]
    /\ pulls = [t \in Threads |-> 0]
    /\ pushes = [t \in Threads |-> 0]
    /\ strays = [t \in Threads |-> 0]
    /\ attempts = [t \in Threads |-> 0]
    /\ codecRuns = [t \in Threads |-> 0]
    /\ closes = [t \in Threads |-> 0]
    /\ seq = NoSeq
    /\ given = [DefaultConfiguration EXCEPT !.PoolSize = PoolSize]
    /\ conf = given
    /\ client = [made |-> TRUE, pool |-> TRUE]
    /\ ncpc = "done"
    /\ inbound = <<>>
    /\ handled = <<>>

\* a panic aborts the process: nothing runs afterwards
Crashed == \E t \in Threads : pc[t] = "panic"

\* a slot is free when no call runs in it
Free(t) == pc[t] \in {"ready", "ret"}

\* ---- connection pool (contract of section 4.2) ----
PoolEmpty == \A c \in AllConns : idle[c] = 0

RECURSIVE SumTo(_, _)
SumTo(f, n) == IF n = 0 THEN 0 ELSE f[n] + SumTo(f, n - 1)

\* the pool's idle count
IdleCount == SumTo(idle, MaxPoolSize)

\* close() invocations on all connections
ClosedCount == SumTo(closed, MaxPoolSize)

\* ---- history: runs of sequential calls ----
\* seq.live: since the run began (at a call made when no call was in flight, with
\* seq.base idle connections) calls have run one at a time, none asynchronous;
\* a run of Command calls goes on over several calls, any other call is a run
\* of its own.  seq.who is the thread of the run's latest call.
SeqStep(t) ==
    seq' = IF \E u \in Threads \ {t} : ~Free(u) THEN NoSeq
           ELSE IF ~Free(t) THEN seq
           ELSE IF async'[t] \/ pc'[t] = "panic" THEN NoSeq
           ELSE IF seq.live /\ seq.kind = "Command" /\ op'[t] = "Command"
                THEN [seq EXCEPT !.who = t]
           ELSE [live |-> TRUE, kind |-> op'[t], base |-> IdleCount, who |-> t]

\* acquire() hands out one idle connection
PoolPull(t, c) ==
    /\ idle[c] > 0
    /\ idle' = [idle EXCEPT ![c] = @ - 1]
    /\ conn' = [conn EXCEPT ![t] = c]
    /\ lease' = [lease EXCEPT ![t] = c]
    /\ pulls' = [pulls EXCEPT ![t] = @ + 1]
    /\ attempts' = [attempts EXCEPT ![t] = @ + 1]

\* acquire() fails: no idle connection is available within the pool's policy.
\* Under a blocking policy the caller waits inside pull (the thread stays at
\* "pull") until a connection is pushed or the wait ends in this failure.
PoolPullFails(t) ==
    /\ PoolEmpty
    /\ attempts' = [attempts EXCEPT ![t] = @ + 1]
    /\ UNCHANGED <<idle, conn, lease, pulls>>

\* release(conn): a nil connection is a no-op, any other goes back to the idle set
PoolPush(t, c) ==
    /\ idle' = IF c = Nil THEN idle ELSE [idle EXCEPT ![c] = @ + 1]
    /\ IF c # Nil /\ c = lease[t]
       THEN /\ pushes' = [pushes EXCEPT ![t] = @ + 1]
            /\ lease' = [lease EXCEPT ![t] = Nil]
            /\ UNCHANGED strays
       ELSE /\ strays' = [strays EXCEPT ![t] = @ + 1]
            /\ UNCHANGED <<pushes, lease>>

\* ---- protocol codec: a deterministic fake ----
Codec(cmd) == IF cmd = "FAIL" THEN ErrReply(CmdErr) ELSE ValReply("v")

\* where a method's return leads: back to the caller, or to the goroutine's setReply
AfterReturn(t) == IF async[t] THEN "setReply" ELSE "ret"

\* a call starts in slot t: its locals and its history are fresh
ResetCall(t, o, a, isAsync) ==
    /\ ~Crashed
    /\ Free(t)
    /\ op' = [op EXCEPT ![t] = o]
    /\ async' = [async EXCEPT ![t] = isAsync]
    /\ arg' = [arg EXCEPT ![t] = a]
    /\ conn' = [conn EXCEPT ![t] = Nil]
    /\ fut' = [fut EXCEPT ![t] = IF isAsync THEN NewFuture ELSE NoFuture]
    /\ mc' = [mc EXCEPT ![t] = NoBatch]
    /\ poolUsage' = [poolUsage EXCEPT ![t] = 0]
    /\ lease' = [lease EXCEPT ![t] = Nil]
    /\ pulls' = [pulls EXCEPT ![t] = 0]
    /\ pushes' = [pushes EXCEPT ![t] = 0]
    /\ strays' = [strays EXCEPT ![t] = 0]
    /\ attempts' = [attempts EXCEPT ![t] = 0]
    /\ codecRuns' = [codecRuns EXCEPT ![t] = 0]
    /\ closes' = [closes EXCEPT ![t] = 0]
    /\ UNCHANGED <<confVars, subVars, PoolSize, closed>>

\* a call that starts by pulling a connection
StartCall(t, o, a, isAsync) ==
    /\ ResetCall(t, o, a, isAsync)
    /\ pc' = [pc EXCEPT ![t] = "pull"]
    /\ r' = [r EXCEPT ![t] = EmptyReply]
    /\ UNCHANGED <<idle, dedicated>>
    /\ SeqStep(t)

\* ---- Client.Command ----
\* r := &Reply{}
Command(t, cmd) == StartCall(t, "Command", cmd, FALSE)

\* variant: the early return on a failed pull is missing
CommandPullNoReturn(t) ==
    /\ ~Crashed
    /\ op[t] = "Command"
    /\ pc[t] = "pull"
    /\ \/ /\ \E c \in AllConns : PoolPull(t, c)
          /\ UNCHANGED r
       \/ /\ PoolPullFails(t)
          /\ r' = [r EXCEPT ![t].err = AcqErr]
    /\ pc' = [pc EXCEPT ![t] = "command"]
    /\ UNCHANGED <<confVars, subVars, PoolSize, closed, dedicated, op, async, arg, fut, mc, poolUsage,
                   pushes, strays, codecRuns, closes>>
    /\ SeqStep(t)

\* variant: the push is not deferred: the connection goes back to the pool as
\* soon as it is pulled, and the call goes on using it
CommandPullPushesAtOnce(t) ==
    /\ ~Crashed
    /\ op[t] = "Command"
    /\ pc[t] = "pull"
    /\ \/ /\ \E c \in AllConns :
                /\ idle[c] > 0
                /\ conn' = [conn EXCEPT ![t] = c]
                /\ lease' = [lease EXCEPT ![t] = c]
          /\ pulls' = [pulls EXCEPT ![t] = @ + 1]
          /\ attempts' = [attempts EXCEPT ![t] = @ + 1]
          /\ pc' = [pc EXCEPT ![t] = "command"]
          /\ UNCHANGED <<r, idle>>
       \/ /\ PoolPullFails(t)
          /\ r' = [r EXCEPT ![t].err = AcqErr]
          /\ pc' = [pc EXCEPT ![t] = AfterReturn(t)]
    /\ UNCHANGED <<confVars, subVars, PoolSize, closed, dedicated, op, async, arg, fut, mc, poolUsage,
                   pushes, strays, codecRuns, closes>>
    /\ SeqStep(t)

\* conn, err := c.pool.pull(); if err != nil { r.err = err; return r }
CommandPull(t) ==
    /\ ~Crashed
    /\ op[t] = "Command"
    /\ pc[t] = "pull"
    /\ \/ /\ \E c \in AllConns : PoolPull(t, c)
          /\ pc' = [pc EXCEPT ![t] = "command"]
          /\ UNCHANGED r
       \/ /\ PoolPullFails(t)
          /\ r' = [r EXCEPT ![t].err = AcqErr]
          /\ pc' = [pc EXCEPT ![t] = AfterReturn(t)]
    /\ UNCHANGED <<confVars, subVars, PoolSize, closed, dedicated, op, async, arg, fut, mc, poolUsage,
                   pushes, strays, codecRuns, closes>>
    /\ SeqStep(t)

\* variant: a failed command drops the connection, so that nil is pushed
CommandExecDrops(t) ==
    /\ ~Crashed
    /\ op[t] = "Command"
    /\ pc[t] = "command"
    /\ r' = [r EXCEPT ![t] = Codec(arg[t])]
    /\ codecRuns' = [codecRuns EXCEPT ![t] = @ + 1]
    /\ conn' = [conn EXCEPT ![t] = IF Codec(arg[t]).err = NoErr THEN @ ELSE Nil]
    /\ pc' = [pc EXCEPT ![t] = "push"]
    /\ UNCHANGED <<confVars, subVars, PoolSize, idle, closed, dedicated, op, async, arg, fut, mc,
                   poolUsage, lease, pulls, pushes, strays, attempts, closes>>
    /\ SeqStep(t)

\* conn.command(r, cmd, args...)
CommandExec(t) ==
    /\ ~Crashed
    /\ op[t] = "Command"
    /\ pc[t] = "command"
    /\ r' = [r EXCEPT ![t] = Codec(arg[t])]
    /\ codecRuns' = [codecRuns EXCEPT ![t] = @ + 1]
    /\ pc' = [pc EXCEPT ![t] = "push"]
    /\ UNCHANGED <<confVars, subVars, PoolSize, idle, closed, dedicated, op, async, arg, conn, fut, mc,
                   poolUsage, lease, pulls, pushes, strays, attempts, closes>>
    /\ SeqStep(t)

\* variant: the deferred release runs twice
CommandPushTwice(t) ==
    /\ ~Crashed
    /\ op[t] = "Command"
    /\ pc[t] = "push"
    /\ idle' = [idle EXCEPT ![conn[t]] = @ + 2]
    /\ pushes' = [pushes EXCEPT ![t] = @ + 1]
    /\ lease' = [lease EXCEPT ![t] = Nil]
    /\ UNCHANGED strays
    /\ conn' = [conn EXCEPT ![t] = Nil]
    /\ pc' = [pc EXCEPT ![t] = AfterReturn(t)]
    /\ UNCHANGED <<confVars, subVars, PoolSize, closed, dedicated, op, async, arg, r, fut, mc,
                   poolUsage, pulls, attempts, codecRuns, closes>>
    /\ SeqStep(t)

\* variant: the release is skipped when the codec reported an error
CommandPushLeak(t) ==
    /\ ~Crashed
    /\ op[t] = "Command"
    /\ pc[t] = "push"
    /\ IF r[t].err = NoErr
       THEN PoolPush(t, conn[t])
       ELSE UNCHANGED <<idle, pushes, strays, lease>>
    /\ conn' = [conn EXCEPT ![t] = Nil]
    /\ pc' = [pc EXCEPT ![t] = AfterReturn(t)]
    /\ UNCHANGED <<confVars, subVars, PoolSize, closed, dedicated, op, async, arg, r, fut, mc,
                   poolUsage, pulls, attempts, codecRuns, closes>>
    /\ SeqStep(t)

\* variant: the goroutine's connection is released only once the Future is read
CommandPushOnRead(t) ==
    /\ ~Crashed
    /\ op[t] = "Command"
    /\ pc[t] = "push"
    /\ async[t] => fut[t].read
    /\ PoolPush(t, conn[t])
    /\ conn' = [conn EXCEPT ![t] = Nil]
    /\ pc' = [pc EXCEPT ![t] = AfterReturn(t)]
    /\ UNCHANGED <<confVars, subVars, PoolSize, closed, dedicated, op, async, arg, r, fut, mc,
                   poolUsage, pulls, attempts, codecRuns, closes>>
    /\ SeqStep(t)

\* defer func() { c.pool.push(conn) }(); return r
CommandPush(t) ==
    /\ ~Crashed
    /\ op[t] = "Command"
    /\ pc[t] = "push"
    /\ PoolPush(t, conn[t])
    /\ conn' = [conn EXCEPT ![t] = Nil]
    /\ pc' = [pc EXCEPT ![t] = AfterReturn(t)]
    /\ UNCHANGED <<confVars, subVars, PoolSize, closed, dedicated, op, async, arg, r, fut, mc,
                   poolUsage, pulls, attempts, codecRuns, closes>>
    /\ SeqStep(t)

\* ---- Client.AsyncCommand ----
\* variant: the call pulls the connection itself, before it spawns the goroutine
AsyncCommandWaits(t, cmd) ==
    /\ ~PoolEmpty
    /\ StartCall(t, "Command", cmd, TRUE)

\* fut := newFuture(); go func() { ... }(); return fut
AsyncCommand(t, cmd) == StartCall(t, "Command", cmd, TRUE)

\* variant: the goroutine sets the reply twice
SetReplyTwice(t) ==
    /\ ~Crashed
    /\ pc[t] = "setReply"
    /\ fut' = [fut EXCEPT ![t] = [@ EXCEPT !.writes = @ + 2, !.reply = r[t]]]
    /\ pc' = [pc EXCEPT ![t] = "ret"]
    /\ UNCHANGED <<confVars, subVars, PoolSize, idle, closed, dedicated, op, async, arg, conn, r, mc,
                   poolUsage, lease, pulls, pushes, strays, attempts, codecRuns, closes>>
    /\ SeqStep(t)

\* variant: the goroutine hands the Future the reply's value without its error
SetReplyDropsErr(t) ==
    /\ ~Crashed
    /\ pc[t] = "setReply"
    /\ fut' = [fut EXCEPT ![t] = [@ EXCEPT !.writes = @ + 1,
                                  !.reply = [r[t] EXCEPT !.err = NoErr]]]
    /\ pc' = [pc EXCEPT ![t] = "ret"]
    /\ UNCHANGED <<confVars, subVars, PoolSize, idle, closed, dedicated, op, async, arg, conn, r, mc,
                   poolUsage, lease, pulls, pushes, strays, attempts, codecRuns, closes>>
    /\ SeqStep(t)

\* fut.setReply(<reply of the wrapped call>), the last step of the goroutine
SetReply(t) ==
    /\ ~Crashed
    /\ pc[t] = "setReply"
    /\ fut' = [fut EXCEPT ![t] = [@ EXCEPT !.writes = @ + 1, !.reply = r[t]]]
    /\ pc' = [pc EXCEPT ![t] = "ret"]
    /\ UNCHANGED <<confVars, subVars, PoolSize, idle, closed, dedicated, op, async, arg, conn, r, mc,
                   poolUsage, lease, pulls, pushes, strays, attempts, codecRuns, closes>>
    /\ SeqStep(t)

\* a holder of the Future reads it: the read waits for the reply to be set, and
\* takes nothing away from the Future or from the goroutine
FutureRead(t) ==
    /\ ~Crashed
    /\ async[t]
    /\ fut[t].writes >= 1
    /\ ~fut[t].read
    /\ fut' = [fut EXCEPT ![t].read = TRUE]
    /\ UNCHANGED <<confVars, subVars, PoolSize, idle, closed, dedicated, pc, op, async, arg, conn, r, mc,
                   poolUsage, lease, pulls, pushes, strays, attempts, codecRuns, closes,
                   seq>>

\* ---- Client.multiCommand, MultiCommand, Transaction ----
Batches == UNION {[1..n -> Cmds] : n \in 0..MaxBatch}

\* variant: Transaction passes false, as MultiCommand does
TransactionFlagFalse(o) == FALSE

\* the transaction argument MultiCommand / Transaction pass to multiCommand
TransactionFlag(o) == o = "Transaction"

AnyFails(q) == \E i \in 1..Len(q) : Codec(q[i]).err # NoErr

\* return c.multiCommand(false, f)
MultiCommand(t) == StartCall(t, "MultiCommand", "none", FALSE)

\* return c.multiCommand(true, f)
Transaction(t) == StartCall(t, "Transaction", "none", FALSE)

\* go func() { fut.setReply(c.MultiCommand(f)) }(); return fut
AsyncMultiCommand(t) == StartCall(t, "MultiCommand", "none", TRUE)

\* go func() { fut.setReply(c.Transaction(f)) }(); return fut
AsyncTransaction(t) == StartCall(t, "Transaction", "none", TRUE)

\* conn, err := c.pool.pull(); if err != nil { return &Reply{err: err} }
MultiPull(t) ==
    /\ ~Crashed
    /\ op[t] \in {"MultiCommand", "Transaction"}
    /\ pc[t] = "pull"
    /\ \/ /\ \E c \in AllConns : PoolPull(t, c)
          /\ pc' = [pc EXCEPT ![t] = "build"]
          /\ UNCHANGED r
       \/ /\ PoolPullFails(t)
          /\ r' = [r EXCEPT ![t] = ErrReply(AcqErr)]
          /\ pc' = [pc EXCEPT ![t] = AfterReturn(t)]
    /\ UNCHANGED <<confVars, subVars, PoolSize, closed, dedicated, op, async, arg, fut, mc, poolUsage,
                   pushes, strays, codecRuns, closes>>
    /\ SeqStep(t)

\* variant: the connection is pushed back as soon as the batch is created
MultiBuildReleases(t) ==
    /\ ~Crashed
    /\ op[t] \in {"MultiCommand", "Transaction"}
    /\ pc[t] = "build"
    /\ mc' = [mc EXCEPT ![t] = [NoBatch EXCEPT !.state = "Building",
                                               !.transaction = TransactionFlag(op[t]),
                                               !.conn = conn[t]]]
    /\ PoolPush(t, conn[t])
    /\ pc' = [pc EXCEPT ![t] = "send"]
    /\ UNCHANGED <<confVars, subVars, PoolSize, closed, dedicated, op, async, arg, conn, r, fut,
                   poolUsage, pulls, attempts, codecRuns, closes>>
    /\ SeqStep(t)

\* newMultiCommand(transaction, conn): a batch in state Building, bound to conn
MultiBuild(t) ==
    /\ ~Crashed
    /\ op[t] \in {"MultiCommand", "Transaction"}
    /\ pc[t] = "build"
    /\ mc' = [mc EXCEPT ![t] = [NoBatch EXCEPT !.state = "Building",
                                               !.transaction = TransactionFlag(op[t]),
                                               !.conn = conn[t]]]
    /\ pc' = [pc EXCEPT ![t] = "send"]
    /\ UNCHANGED <<confVars, subVars, PoolSize, idle, closed, dedicated, op, async, arg, conn, r, fut,
                   poolUsage, lease, pulls, pushes, strays, attempts, codecRuns, closes>>
    /\ SeqStep(t)

\* the batch's one terminal transition, on the queued sequence q: Sent, or
\* Committed | RolledBack between the codec's begin and commit
BatchOutcome(b, q) ==
    IF ~b.transaction
    THEN [b EXCEPT !.state = "Sent", !.queued = q, !.failed = AnyFails(q)]
    ELSE IF AnyFails(q)
         THEN [b EXCEPT !.state = "RolledBack", !.queued = q, !.failed = TRUE,
                        !.rollbacks = @ + 1]
         ELSE [b EXCEPT !.state = "Committed", !.queued = q, !.failed = FALSE,
                        !.commits = @ + 1]

\* the one Reply summarising the batch
BatchReply(q) == IF AnyFails(q) THEN ErrReply(CmdErr) ELSE ValReply("v")

\* .process(f): the build callback f queues the sequence q, which is then sent
\* as one grouped operation
MultiProcess(t, q) ==
    /\ ~Crashed
    /\ op[t] \in {"MultiCommand", "Transaction"}
    /\ pc[t] = "send"
    /\ mc' = [mc EXCEPT ![t] = BatchOutcome(@, q)]
    /\ r' = [r EXCEPT ![t] = BatchReply(q)]
    /\ codecRuns' = [codecRuns EXCEPT ![t] = @ + 1]
    /\ pc' = [pc EXCEPT ![t] = "push"]
    /\ UNCHANGED <<confVars, subVars, PoolSize, idle, closed, dedicated, op, async, arg, conn, fut,
                   poolUsage, lease, pulls, pushes, strays, attempts, closes>>
    /\ SeqStep(t)

\* defer func() { c.pool.push(conn) }(); return <reply of process>
\* the completed batch is destroyed with the release: its queue is gone
MultiPush(t) ==
    /\ ~Crashed
    /\ op[t] \in {"MultiCommand", "Transaction"}
    /\ pc[t] = "push"
    /\ PoolPush(t, conn[t])
    /\ conn' = [conn EXCEPT ![t] = Nil]
    /\ mc' = [mc EXCEPT ![t].queued = <<>>, ![t].conn = Nil]
    /\ pc' = [pc EXCEPT ![t] = AfterReturn(t)]
    /\ UNCHANGED <<confVars, subVars, PoolSize, closed, dedicated, op, async, arg, r, fut, poolUsage,
                   pulls, attempts, codecRuns, closes>>
    /\ SeqStep(t)

\* ---- Client.Close ----
\* var poolUsage int
Close(t) == StartCall(t, "Close", "none", FALSE)

\* variant: a failed pull does not leave the loop
ClosePullRetries(t) ==
    /\ ~Crashed
    /\ op[t] = "Close"
    /\ pc[t] = "pull"
    /\ \/ /\ \E c \in AllConns : PoolPull(t, c)
          /\ pc' = [pc EXCEPT ![t] = "close"]
       \/ /\ PoolEmpty
          /\ pc' = [pc EXCEPT ![t] = "pull"]
          /\ UNCHANGED <<idle, conn, lease, pulls, attempts>>
    /\ UNCHANGED <<confVars, subVars, PoolSize, closed, dedicated, op, async, arg, r, fut, mc,
                   poolUsage, pushes, strays, codecRuns, closes>>
    /\ SeqStep(t)

\* conn, err := c.pool.pull(); if err != nil { break }
ClosePull(t) ==
    /\ ~Crashed
    /\ op[t] = "Close"
    /\ pc[t] = "pull"
    /\ \/ /\ \E c \in AllConns : PoolPull(t, c)
          /\ pc' = [pc EXCEPT ![t] = "close"]
       \/ /\ PoolPullFails(t)
          /\ pc' = [pc EXCEPT ![t] = "ret"]
    /\ UNCHANGED <<confVars, subVars, PoolSize, closed, dedicated, op, async, arg, r, fut, mc,
                   poolUsage, pushes, strays, codecRuns, closes>>
    /\ SeqStep(t)

\* variant: the exit test is off by one
CloseDoneLate(usage) == usage = PoolSize + 1

\* the loop's exit test: if poolUsage == c.configuration.PoolSize { return }
CloseDone(usage) == usage = PoolSize

\* variant: Close also closes the connections that calls in flight hold
CloseConnLeased(t) ==
    /\ ~Crashed
    /\ op[t] = "Close"
    /\ pc[t] = "close"
    /\ poolUsage' = [poolUsage EXCEPT ![t] = @ + 1]
    /\ IF conn[t] # Nil
       THEN /\ closed' = [c \in AllConns |->
                            IF c = conn[t] \/ \E u \in Threads \ {t} : lease[u] = c
                            THEN closed[c] + 1 ELSE closed[c]]
            /\ closes' = [closes EXCEPT ![t] = @ + 1]
            /\ conn' = [conn EXCEPT ![t] = Nil]
            /\ lease' = [lease EXCEPT ![t] = Nil]
       ELSE UNCHANGED <<closed, closes, conn, lease>>
    /\ pc' = [pc EXCEPT ![t] = IF CloseDone(poolUsage[t] + 1) THEN "ret" ELSE "pull"]
    /\ UNCHANGED <<confVars, subVars, PoolSize, idle, dedicated, op, async, arg, r, fut, mc,
                   pulls, pushes, strays, attempts, codecRuns>>
    /\ SeqStep(t)

\* variant: close is invoked without the test for nil
CloseConnNoNilTest(t) ==
    /\ ~Crashed
    /\ op[t] = "Close"
    /\ pc[t] = "close"
    /\ poolUsage' = [poolUsage EXCEPT ![t] = @ + 1]
    /\ closed' = IF conn[t] # Nil THEN [closed EXCEPT ![conn[t]] = @ + 1] ELSE closed
    /\ closes' = [closes EXCEPT ![t] = @ + 1]
    /\ conn' = [conn EXCEPT ![t] = Nil]
    /\ lease' = [lease EXCEPT ![t] = Nil]
    /\ pc' = [pc EXCEPT ![t] = IF CloseDone(poolUsage[t] + 1) THEN "ret" ELSE "pull"]
    /\ UNCHANGED <<confVars, subVars, PoolSize, idle, dedicated, op, async, arg, r, fut, mc,
                   pulls, pushes, strays, attempts, codecRuns>>
    /\ SeqStep(t)

\* poolUsage++; if conn != nil { conn.close(); conn = nil };
\* if poolUsage == c.configuration.PoolSize { return }
CloseConn(t) ==
    /\ ~Crashed
    /\ op[t] = "Close"
    /\ pc[t] = "close"
    /\ poolUsage' = [poolUsage EXCEPT ![t] = @ + 1]
    /\ IF conn[t] # Nil
       THEN /\ closed' = [closed EXCEPT ![conn[t]] = @ + 1]
            /\ closes' = [closes EXCEPT ![t] = @ + 1]
            /\ conn' = [conn EXCEPT ![t] = Nil]
            /\ lease' = [lease EXCEPT ![t] = Nil]
       ELSE UNCHANGED <<closed, closes, conn, lease>>
    /\ pc' = [pc EXCEPT ![t] = IF CloseDone(poolUsage[t] + 1) THEN "ret" ELSE "pull"]
    /\ UNCHANGED <<confVars, subVars, PoolSize, idle, dedicated, op, async, arg, r, fut, mc,
                   pulls, pushes, strays, attempts, codecRuns>>
    /\ SeqStep(t)

\* ---- Client.Subscription ----
\* variant: the handler is tested after newSubscription has withdrawn a connection
SubscriptionPanicLate(t) ==
    /\ ~Crashed
    /\ Free(t)
    /\ pc' = [u \in Threads |-> "panic"]
    /\ op' = [u \in Threads |-> IF u = t THEN "Subscription" ELSE "none"]
    /\ arg' = [u \in Threads |-> IF u = t THEN "nil" ELSE "none"]
    /\ async' = [u \in Threads |-> FALSE]
    /\ conn' = [u \in Threads |-> Nil]
    /\ r' = [u \in Threads |-> EmptyReply]
    /\ fut' = [u \in Threads |-> NoFuture]
    /\ mc' = [u \in Threads |-> NoBatch]
    /\ poolUsage' = [u \in Threads |-> 0]
    /\ lease' = [u \in Threads |-> Nil]
    /\ pulls' = [u \in Threads |-> 0]
    /\ pushes' = [u \in Threads |-> 0]
    /\ strays' = [u \in Threads |-> 0]
    /\ attempts' = [u \in Threads |-> 0]
    /\ codecRuns' = [u \in Threads |-> 0]
    /\ closes' = [u \in Threads |-> 0]
    /\ \/ \E c \in AllConns : idle[c] > 0 /\ idle' = [idle EXCEPT ![c] = @ - 1]
       \/ PoolEmpty /\ UNCHANGED idle
    /\ UNCHANGED <<confVars, subVars, PoolSize, closed, dedicated>>
    /\ SeqStep(t)

\* if msgHdlr == nil { panic("redis: message handler must not be nil") }
\* The panic aborts the process: every thread's call is gone with it.
SubscriptionPanic(t) ==
    /\ ~Crashed
    /\ Free(t)
    /\ pc' = [u \in Threads |-> "panic"]
    /\ op' = [u \in Threads |-> IF u = t THEN "Subscription" ELSE "none"]
    /\ arg' = [u \in Threads |-> IF u = t THEN "nil" ELSE "none"]
    /\ async' = [u \in Threads |-> FALSE]
    /\ conn' = [u \in Threads |-> Nil]
    /\ r' = [u \in Threads |-> EmptyReply]
    /\ fut' = [u \in Threads |-> NoFuture]
    /\ mc' = [u \in Threads |-> NoBatch]
    /\ poolUsage' = [u \in Threads |-> 0]
    /\ lease' = [u \in Threads |-> Nil]
    /\ pulls' = [u \in Threads |-> 0]
    /\ pushes' = [u \in Threads |-> 0]
    /\ strays' = [u \in Threads |-> 0]
    /\ attempts' = [u \in Threads |-> 0]
    /\ codecRuns' = [u \in Threads |-> 0]
    /\ closes' = [u \in Threads |-> 0]
    /\ UNCHANGED <<confVars, subVars, PoolSize, idle, closed, dedicated>>
    /\ SeqStep(t)

\* sub, err := newSubscription(c, msgHdlr): the handler is there, the call is made
Subscription(t, h) ==
    /\ h # "nil"
    /\ ResetCall(t, "Subscription", h, FALSE)
    /\ pc' = [pc EXCEPT ![t] = "subscribe"]
    /\ r' = [r EXCEPT ![t] = EmptyReply]
    /\ UNCHANGED <<idle, dedicated>>
    /\ SeqStep(t)

\* newSubscription withdraws a connection from the pool's rotation; without one
\* it returns the acquisition error
SubscriptionOpen(t) ==
    /\ ~Crashed
    /\ op[t] = "Subscription"
    /\ pc[t] = "subscribe"
    /\ \/ /\ \E c \in AllConns : PoolPull(t, c)
          /\ pc' = [pc EXCEPT ![t] = "handshake"]
          /\ UNCHANGED r
       \/ /\ PoolPullFails(t)
          /\ r' = [r EXCEPT ![t] = ErrReply(AcqErr)]
          /\ pc' = [pc EXCEPT ![t] = "subret"]
    /\ UNCHANGED <<confVars, subVars, PoolSize, closed, dedicated, op, async, arg, fut, mc, poolUsage,
                   pushes, strays, codecRuns, closes>>
    /\ SeqStep(t)

\* what newSubscription may hand back next to a handshake error: no
\* subscription, or the one it had begun to set up
FailedSubs == {NoValue, "sub"}

\* newSubscription performs the subscribe handshake: on success the connection
\* is the subscription's for its life; on failure the connection is given back
\* and the handshake error returned
SubscriptionHandshake(t) ==
    /\ ~Crashed
    /\ op[t] = "Subscription"
    /\ pc[t] = "handshake"
    /\ \/ /\ dedicated' = dedicated \cup {conn[t]}
          /\ lease' = [lease EXCEPT ![t] = Nil]
          /\ r' = [r EXCEPT ![t] = ValReply("sub")]
          /\ UNCHANGED <<idle, pushes, strays>>
       \/ /\ PoolPush(t, conn[t])
          /\ \E v \in FailedSubs : r' = [r EXCEPT ![t] = [value |-> v, err |-> SubErr]]
          /\ UNCHANGED dedicated
    /\ conn' = [conn EXCEPT ![t] = Nil]
    /\ pc' = [pc EXCEPT ![t] = "subret"]
    /\ UNCHANGED <<confVars, subVars, PoolSize, closed, op, async, arg, fut, mc, poolUsage,
                   pulls, attempts, codecRuns, closes>>
    /\ SeqStep(t)

\* variant: the error is returned together with whatever newSubscription gave
SubscriptionReturnKeepsSub(t) ==
    /\ ~Crashed
    /\ op[t] = "Subscription"
    /\ pc[t] = "subret"
    /\ pc' = [pc EXCEPT ![t] = "ret"]
    /\ UNCHANGED <<confVars, subVars, PoolSize, idle, closed, dedicated, op, async, arg, conn, r, fut, mc,
                   poolUsage, lease, pulls, pushes, strays, attempts, codecRuns, closes>>
    /\ SeqStep(t)

\* if err != nil { return nil, err }; return sub, nil
SubscriptionReturn(t) ==
    /\ ~Crashed
    /\ op[t] = "Subscription"
    /\ pc[t] = "subret"
    /\ r' = [r EXCEPT ![t] = IF @.err # NoErr THEN ErrReply(@.err) ELSE @]
    /\ pc' = [pc EXCEPT ![t] = "ret"]
    /\ UNCHANGED <<confVars, subVars, PoolSize, idle, closed, dedicated, op, async, arg, conn, fut, mc,
                   poolUsage, lease, pulls, pushes, strays, attempts, codecRuns, closes>>
    /\ SeqStep(t)

Next ==
    \E t \in Threads :
        \/ \E cmd \in Cmds : Command(t, cmd)
        \/ CommandPull(t)
        \/ CommandExec(t)
        \/ CommandPush(t)
        \/ \E cmd \in Cmds : AsyncCommand(t, cmd)
        \/ MultiCommand(t)
        \/ Transaction(t)
        \/ AsyncMultiCommand(t)
        \/ AsyncTransaction(t)
        \/ MultiPull(t)
        \/ MultiBuild(t)
        \/ \E q \in Batches : MultiProcess(t, q)
        \/ MultiPush(t)
        \/ SetReply(t)
        \/ FutureRead(t)
        \/ Close(t)
        \/ ClosePull(t)
        \/ CloseConn(t)
        \/ SubscriptionPanic(t)
        \/ \E h \in Handlers : Subscription(t, h)
        \/ SubscriptionOpen(t)
        \/ SubscriptionHandshake(t)
        \/ SubscriptionReturn(t)

Spec == Init /\ [][Next]_vars

\* the steps of a call that is under way in thread t.  The scheduler runs every
\* runnable thread, pull and the codec return: a running call keeps stepping.
\* Nothing obliges a caller to start a call.
Run(t) ==
    \/ CommandPull(t)
    \/ CommandExec(t)
    \/ CommandPush(t)
    \/ MultiPull(t)
    \/ MultiBuild(t)
    \/ \E q \in Batches : MultiProcess(t, q)
    \/ MultiPush(t)
    \/ SetReply(t)
    \/ ClosePull(t)
    \/ CloseConn(t)
    \/ SubscriptionOpen(t)
    \/ SubscriptionHandshake(t)
    \/ SubscriptionReturn(t)

FairSpec == Spec /\ \A t \in Threads : WF_vars(Run(t))

\* ---- Subscription: message delivery (sections 4.5 and 5) ----
Channels == {"news", "jobs"}

\* a message: the n-th that arrived on its channel
Messages == [channel : Channels, n : 1..MaxMsgs]

\* the messages of the sequence q that are on channel ch, in q's order
OnChannel(q, ch) == SelectSeq(q, LAMBDA m : m.channel = ch)

\* every message that has arrived, in arrival order
Arrived == handled \o inbound

\* one subscription at a time is followed: the first one made
Subscribe(t) ==
    /\ dedicated = {}
    /\ \A u \in Threads : Free(u) \/ op[u] # "Subscription"
    /\ Subscription(t, "handler")

\* a message arrives on the live subscription's connection, on channel ch
Arrive(ch) ==
    /\ ~Crashed
    /\ dedicated # {}
    /\ Len(OnChannel(Arrived, ch)) < MaxMsgs
    /\ inbound' = Append(inbound, [channel |-> ch, n |-> Len(OnChannel(Arrived, ch)) + 1])
    /\ UNCHANGED <<handled, clientVars, confVars>>

\* variant: the listener hands over the newest message first
DispatchNewest ==
    /\ ~Crashed
    /\ inbound # <<>>
    /\ handled' = Append(handled, inbound[Len(inbound)])
    /\ inbound' = SubSeq(inbound, 1, Len(inbound) - 1)
    /\ UNCHANGED <<clientVars, confVars>>

\* the subscription's listener takes the oldest message off the connection and
\* invokes msgHdlr with it, one message at a time
Dispatch ==
    /\ ~Crashed
    /\ inbound # <<>>
    /\ handled' = Append(handled, Head(inbound))
    /\ inbound' = Tail(inbound)
    /\ UNCHANGED <<clientVars, confVars>>

\* a subscription, its messages, and Command / Transaction calls around it
SubNext ==
    \/ \E ch \in Channels : Arrive(ch)
    \/ Dispatch
    \/ \E t \in Threads :
        \/ Subscribe(t)
        \/ SubscriptionOpen(t)
        \/ SubscriptionHandshake(t)
        \/ SubscriptionReturn(t)
        \/ \E cmd \in Cmds : Command(t, cmd)
        \/ CommandPull(t)
        \/ CommandExec(t)
        \/ CommandPush(t)
        \/ Transaction(t)
        \/ MultiPull(t)
        \/ MultiBuild(t)
        \/ \E q \in Batches : MultiProcess(t, q)
        \/ MultiPush(t)

SubSpec == Init /\ [][SubNext]_vars

\* the listener keeps running: the handler does not block for ever (section 5)
FairSubSpec == SubSpec /\ WF_vars(Dispatch)

\* ---- Close on a pool whose pull may succeed without a connection ----
\* conn, err := c.pool.pull() with err == nil and conn == nil: the case Close's
\* test conn != nil provides for (a slot of the pool that holds no connection).
\* The idle connections are left as they are.
ClosePullNil(t) ==
    /\ ~Crashed
    /\ op[t] = "Close"
    /\ pc[t] = "pull"
    /\ conn' = [conn EXCEPT ![t] = Nil]
    /\ pulls' = [pulls EXCEPT ![t] = @ + 1]
    /\ attempts' = [attempts EXCEPT ![t] = @ + 1]
    /\ pc' = [pc EXCEPT ![t] = "close"]
    /\ UNCHANGED <<confVars, subVars, PoolSize, idle, closed, dedicated, op, async, arg,
                   r, fut, mc, poolUsage, lease, pushes, strays, codecRuns, closes>>
    /\ SeqStep(t)

\* Close calls, and Command calls around them, on such a pool
DrainNext ==
    \E t \in Threads :
        \/ Close(t)
        \/ ClosePull(t)
        \/ ClosePullNil(t)
        \/ CloseConn(t)
        \/ \E cmd \in Cmds : Command(t, cmd)
        \/ CommandPull(t)
        \/ CommandExec(t)
        \/ CommandPush(t)

DrainSpec == Init /\ [][DrainNext]_vars

\* ---- NewClient and checkConfiguration ----
Addresses == {"", DefaultAddress, "10.0.0.7:6380"}
Paths == {"", "/tmp/redis.sock"}

\* the Configuration values NewClient is called with
Configurations ==
    [Address : Addresses, Path : Paths, Database : -MaxInt..MaxInt,
     PoolSize : -MaxInt..MaxInt]

\* if c.Address != "" && c.Path != "" { panic(...) }
CheckPanics(cf) == cf.Address # "" /\ cf.Path # ""

\* if c.Address == "" && c.Path == "" { c.Address = "127.0.0.1:6379" }
FillAddress(cf) ==
    IF cf.Address = "" /\ cf.Path = "" THEN [cf EXCEPT !.Address = DefaultAddress] ELSE cf

\* if c.Database < 0 { c.Database = 0 }
FillDatabase(cf) == IF cf.Database < 0 THEN [cf EXCEPT !.Database = 0] ELSE cf

\* variant: a pool size of 0 is let through
FillPoolSizeNegative(cf) ==
    IF cf.PoolSize < 0 THEN [cf EXCEPT !.PoolSize = DefaultPoolSize] ELSE cf

\* if c.PoolSize <= 0 { c.PoolSize = 10 }
FillPoolSize(cf) ==
    IF cf.PoolSize <= 0 THEN [cf EXCEPT !.PoolSize = DefaultPoolSize] ELSE cf

\* the default values of checkConfiguration, in the order of the code
checkConfiguration(cf) == FillPoolSize(FillDatabase(FillAddress(cf)))

\* NewClient is called with one of the Configurations: nothing exists yet.  The
\* calls on the Client are not followed here: its variables stand still.
ConfInit ==
    /\ given \in Configurations
    /\ conf = given
    /\ client = [made |-> FALSE, pool |-> FALSE]
    /\ ncpc = "check"
    /\ PoolSize = 1
    /\ idle = [c \in AllConns |-> 0]
    /\ closed = [c \in AllConns |-> 0]
    /\ dedicated = {}
    /\ pc = [t \in Threads |-> "ready"]
    /\ op = [t \in Threads |-> "none"]
    /\ async = [t \in Threads |-> FALSE]
    /\ arg = [t \in Threads |-> "none"]
    /\ conn = [t \in Threads |-> Nil]
    /\ r = [t \in Threads |-> EmptyReply]
    /\ fut = [t \in Threads |-> NoFuture]
    /\ mc = [t \in Threads |-> NoBatch]
    /\ poolUsage = [t \in Threads |-> 0]
    /\ lease = [t \in Threads |-> Nil]
    /\ pulls = [t \in Threads |-> 0]
    /\ pushes = [t \in Threads |-> 0]
    /\ strays = [t \in Threads |-> 0]
    /\ attempts = [t \in Threads |-> 0]
    /\ codecRuns = [t \in Threads |-> 0]
    /\ closes = [t \in Threads |-> 0]
    /\ seq = NoSeq
    /\ inbound = <<>>
    /\ handled = <<>>

\* variant: the defaults are filled in before the address / path test
NewClientCheckDefaultsFirst ==
    /\ ncpc = "check"
    /\ conf' = checkConfiguration(conf)
    /\ ncpc' = IF CheckPanics(conf) THEN "panic" ELSE "client"
    /\ UNCHANGED <<given, client, clientVars, subVars>>

\* checkConfiguration(&conf): panics, or fills in the defaults
NewClientCheck ==
    /\ ncpc = "check"
    /\ IF CheckPanics(conf)
       THEN ncpc' = "panic" /\ UNCHANGED conf
       ELSE ncpc' = "client" /\ conf' = checkConfiguration(conf)
    /\ UNCHANGED <<given, client, clientVars, subVars>>

\* c := &Client{configuration: &conf, lock: &sync.Mutex{}}
NewClientMake ==
    /\ ncpc = "client"
    /\ client' = [client EXCEPT !.made = TRUE]
    /\ ncpc' = "pool"
    /\ UNCHANGED <<given, conf, clientVars, subVars>>

\* c.pool = newConnectionPool(c.configuration); return c
NewClientPool ==
    /\ ncpc = "pool"
    /\ client' = [client EXCEPT !.pool = TRUE]
    /\ ncpc' = "done"
    /\ UNCHANGED <<given, conf, clientVars, subVars>>

ConfNext == NewClientCheck \/ NewClientMake \/ NewClientPool

ConfSpec == ConfInit /\ [][ConfNext]_vars

\* ======================= properties =======================

\* the methods that lease a connection for one command or one batch
LeasingOps == {"Command", "MultiCommand", "Transaction"}

\* the method of thread t has returned (a goroutine may still owe its setReply)
Returned(t) == pc[t] \in {"setReply", "ret"}

\* threads holding a lease: a connection pulled and not yet pushed back or closed
Leases == {t \in Threads : lease[t] # Nil}

\* C1: in every interleaving of Command, MultiCommand, Transaction and their
\* Async variants, the number of connections leased at the same instant never
\* exceeds PoolSize.
C1_LeasesAtMostPoolSize == Cardinality(Leases) <= PoolSize

\* every connection of the pool is leased and another call is asking for one
C1_Witness ==
    \E t, u \in Threads :
        /\ t # u
        /\ op[t] \in LeasingOps /\ lease[t] # Nil
        /\ op[u] \in LeasingOps /\ pc[u] = "pull"
        /\ Cardinality(Leases) = PoolSize

\* C2: Command and multiCommand push the connection they pulled exactly once
\* before they return, whether the codec / batch succeeded or failed, and never
\* push anything they did not pull.
C2_ReleasedExactlyOnce ==
    \A t \in Threads :
        op[t] \in LeasingOps =>
            /\ strays[t] = 0
            /\ pulls[t] <= 1
            /\ pushes[t] <= pulls[t]
            /\ Returned(t) => pushes[t] = pulls[t] /\ lease[t] = Nil

\* one call returned after a codec failure, another after a success, each
\* having pushed its connection once
C2_Witness ==
    \E t, u \in Threads :
        /\ Returned(t) /\ op[t] = "Command" /\ r[t].err = CmdErr /\ pushes[t] = 1
        /\ Returned(u) /\ op[u] \in {"MultiCommand", "Transaction"}
        /\ r[u].err = NoErr /\ pushes[u] = 1

\* C3: after any run of sequential (non-overlapping) Command calls, whatever
\* their codec and acquisition outcomes, the pool's idle count equals its idle
\* count before the run.
C3_IdleCountPreserved ==
    (seq.live /\ seq.kind = "Command" /\ \A t \in Threads : Free(t))
        => IdleCount = seq.base

\* a run of sequential Command calls, one ended in a codec failure and one in a
\* success, has completed
C3_Witness ==
    /\ seq.live /\ seq.kind = "Command"
    /\ \E t, u \in Threads :
        /\ pc[t] = "ret" /\ op[t] = "Command" /\ r[t].err = CmdErr
        /\ pc[u] = "ret" /\ op[u] = "Command" /\ r[u].err = NoErr

\* the pull of thread t fails in this step
AcquireFails(t) ==
    /\ op[t] \in LeasingOps
    /\ pc[t] = "pull"
    /\ attempts'[t] = attempts[t] + 1
    /\ pulls'[t] = pulls[t]

C4_OnlyTheAcquisitionError ==
    \A t \in Threads :
        (op[t] \in LeasingOps /\ Returned(t) /\ pulls[t] = 0) =>
            /\ r[t] = ErrReply(AcqErr)
            /\ codecRuns[t] = 0
            /\ mc[t] = NoBatch
            /\ pushes[t] = 0 /\ strays[t] = 0

C4_FailedAcquireReturns ==
    \A t \in Threads :
        AcquireFails(t) => /\ UNCHANGED poolVars
                           /\ pc'[t] \in {"setReply", "ret"}
                           /\ codecRuns'[t] = 0

\* C4: when the pool's acquire fails, Command and multiCommand return a Reply
\* carrying only the acquisition error: the codec / batch executor is not
\* invoked, nothing is pushed, and the call leaves the pool as it found it.
C4_AcquireFailureShortCircuits ==
    []C4_OnlyTheAcquisitionError /\ [][C4_FailedAcquireReturns]_vars

\* a Command and a batch have both returned on a failed acquire
C4_Witness ==
    \E t, u \in Threads :
        /\ op[t] = "Command" /\ Returned(t) /\ attempts[t] = 1 /\ pulls[t] = 0
        /\ op[u] \in {"MultiCommand", "Transaction"} /\ Returned(u)
        /\ attempts[u] = 1 /\ pulls[u] = 0

C5_WrittenAtMostOnce ==
    \A t \in Threads :
        /\ fut[t].writes <= 1
        /\ fut[t].writes = 1 => pc[t] = "ret" /\ fut[t].reply = r[t]
        /\ (async[t] /\ pc[t] = "ret") => fut[t].writes = 1
        /\ (async[t] /\ pc[t] # "ret") => fut[t].made /\ fut[t].writes = 0

C5_EventuallyWritten ==
    \A t \in Threads :
        (fut[t].made /\ fut[t].writes = 0) ~> (fut[t].writes = 1 \/ Crashed)

\* C5: the Future of AsyncCommand, AsyncMultiCommand and AsyncTransaction is
\* fulfilled exactly once: it is written with the Reply of the wrapped call
\* (the acquisition-error Reply included) once that call returns, eventually
\* unless a panic aborts the process first, and never a second time.
C5_FutureFulfilledOnce == []C5_WrittenAtMostOnce /\ C5_EventuallyWritten

\* a Future written with the acquisition-error Reply, another with a batch's
C5_Witness ==
    \E t, u \in Threads :
        /\ async[t] /\ fut[t].writes = 1 /\ fut[t].reply = ErrReply(AcqErr)
        /\ async[u] /\ fut[u].writes = 1 /\ op[u] \in {"MultiCommand", "Transaction"}
        /\ fut[u].reply.err = NoErr

\* C6: against the deterministic codec, for the same cmd and the same outcome of
\* the acquire (the same pool state), the Reply in the fulfilled Future of
\* AsyncCommand equals the Reply Command returns, and both calls have the same
\* effect on the pool (what they pulled, they pushed back).
C6_AsyncEqualsSync ==
    \A t, u \in Threads :
        ( /\ op[t] = "Command" /\ async[t] /\ pc[t] = "ret"
          /\ op[u] = "Command" /\ ~async[u] /\ pc[u] = "ret"
          /\ arg[t] = arg[u]
          /\ pulls[t] = pulls[u] )
        => /\ fut[t].writes = 1
           /\ fut[t].reply = r[u]
           /\ pushes[t] = pushes[u]
           /\ strays[t] = strays[u]

\* an AsyncCommand and a Command of the same failing cmd, both served by a
\* connection, have completed
C6_Witness ==
    \E t, u \in Threads :
        /\ op[t] = "Command" /\ async[t] /\ pc[t] = "ret"
        /\ op[u] = "Command" /\ ~async[u] /\ pc[u] = "ret"
        /\ arg[t] = "FAIL" /\ arg[u] = "FAIL"
        /\ pulls[t] = 1 /\ pulls[u] = 1
        /\ fut[t].reply = ErrReply(CmdErr)

C7_ClosesAtMostPoolSize ==
    \A t \in Threads : op[t] = "Close" => closes[t] <= PoolSize

C7_CloseReturns ==
    \A t \in Threads :
        (op[t] = "Close" /\ pc[t] \in {"pull", "close"})
            ~> ((op[t] = "Close" /\ pc[t] = "ret") \/ Crashed)

\* C7: Close closes at most PoolSize connections and returns after finitely
\* many steps (unless a panic aborts the process) from every pool state, a
\* partially drained pool included.
C7_CloseBoundedAndTerminates == []C7_ClosesAtMostPoolSize /\ C7_CloseReturns

\* Close has returned from a pool that was partially drained: a connection is
\* dedicated to a subscription, Close closed another and then found none
C7_Witness ==
    \E t \in Threads :
        /\ op[t] = "Close" /\ pc[t] = "ret"
        /\ dedicated # {}
        /\ closes[t] >= 1 /\ closes[t] < PoolSize

\* C8: Close stops as soon as its count of successful pulls equals PoolSize or
\* a pull fails: it never makes more than PoolSize pull attempts, and alone on
\* a pool of PoolSize idle connections it makes exactly PoolSize attempts and
\* PoolSize close invocations.
C8_CloseStopsAtPoolSize ==
    \A t \in Threads :
        op[t] = "Close" =>
            /\ attempts[t] <= PoolSize
            /\ pc[t] \in {"pull", "close"} =>
                    poolUsage[t] < PoolSize /\ attempts[t] = pulls[t]
            /\ pc[t] = "ret" =>
                    \/ poolUsage[t] = PoolSize /\ attempts[t] = PoolSize
                    \/ poolUsage[t] < PoolSize /\ attempts[t] = poolUsage[t] + 1
            /\ (pc[t] = "ret" /\ seq.live /\ seq.who = t /\ seq.base = PoolSize) =>
                    closes[t] = PoolSize /\ attempts[t] = PoolSize

\* Close has run alone on a pool of PoolSize >= 2 idle connections
C8_Witness ==
    \E t \in Threads :
        /\ op[t] = "Close" /\ pc[t] = "ret"
        /\ seq.live /\ seq.who = t /\ seq.base = PoolSize
        /\ PoolSize >= 2
        /\ closes[t] = PoolSize

Terminal == {"Sent", "Committed", "RolledBack"}

C10_BatchOnOneLease ==
    \A t \in Threads :
        op[t] \in {"MultiCommand", "Transaction"} =>
            /\ attempts[t] <= 1
            /\ mc[t].state # "none" => pulls[t] = 1
            /\ mc[t].state = "Building" =>
                    mc[t].conn # Nil /\ lease[t] = mc[t].conn /\ pushes[t] = 0
            /\ pc[t] = "push" =>
                    mc[t].state \in Terminal /\ lease[t] = mc[t].conn /\ pushes[t] = 0
            /\ (pushes[t] > 0 \/ strays[t] > 0) => Returned(t)
            /\ (Returned(t) /\ pulls[t] = 1) =>
                    mc[t].state \in Terminal /\ pushes[t] = 1 /\ lease[t] = Nil
            /\ mc[t].state \in Terminal =>
                    /\ mc[t].transaction = (op[t] = "Transaction")
                    /\ mc[t].state = "Sent" <=> ~mc[t].transaction
                    /\ mc[t].commits + mc[t].rollbacks = IF mc[t].transaction THEN 1 ELSE 0

\* within a call, a batch goes none -> Building -> one terminal state, which it
\* keeps, and it stays on the connection it was created on until the release
C10_BatchSteps ==
    \A t \in Threads :
        (op[t] \in {"MultiCommand", "Transaction"} /\ ~Free(t) /\ pc'[t] # "panic") =>
            /\ mc[t].state \in Terminal => mc'[t].state = mc[t].state
            /\ mc'[t].state # mc[t].state =>
                    \/ mc[t].state = "none" /\ mc'[t].state = "Building"
                    \/ mc[t].state = "Building" /\ mc'[t].state \in Terminal
            /\ (mc[t].conn # Nil /\ lease'[t] # Nil) => mc'[t].conn = mc[t].conn

\* C10: a MultiCommand / Transaction batch is bound to exactly one leased
\* connection for its lifetime, in the order acquire, build, send / commit /
\* rollback, release: one acquire per batch, one terminal state (Sent, or
\* Committed or RolledBack when transactional), and the connection is released
\* after the terminal transition and not before it.
C10_BatchLifecycle == []C10_BatchOnOneLease /\ [][C10_BatchSteps]_vars

\* a committed Transaction and a sent MultiCommand have each released their
\* connection
C10_Witness ==
    \E t, u \in Threads :
        /\ op[t] = "Transaction" /\ Returned(t) /\ mc[t].state = "Committed"
        /\ pushes[t] = 1
        /\ op[u] = "MultiCommand" /\ Returned(u) /\ mc[u].state = "Sent"
        /\ pushes[u] = 1

C11_UnreadIsReleased ==
    \A t \in Threads :
        (async[t] /\ pc[t] = "ret" /\ ~fut[t].read) =>
            /\ fut[t].writes = 1
            /\ lease[t] = Nil
            /\ pushes[t] = pulls[t]

C11_WorkCompletes ==
    \A t \in Threads :
        (async[t] /\ lease[t] # Nil)
            ~> (\/ /\ async[t] /\ pc[t] = "ret" /\ lease[t] = Nil /\ pushes[t] = 1
                   /\ fut[t].writes = 1 /\ ~fut[t].read
                \/ Crashed)

\* C11: a Future that is never read still completes: the spawned work of an
\* Async* call that acquired a connection eventually finishes and pushes that
\* connection back (unless a panic aborts the process), while no reader has
\* read the Future: nothing obliges FutureRead to happen.
C11_UnreadFutureCompletes == []C11_UnreadIsReleased /\ C11_WorkCompletes

\* the work of an Async* call is done and its Future unread; the one connection
\* of the pool, which it had leased, is leased again by another call
C11_Witness ==
    \E t, u \in Threads :
        /\ t # u
        /\ PoolSize = 1
        /\ async[t] /\ pc[t] = "ret" /\ pulls[t] = 1 /\ pushes[t] = 1
        /\ fut[t].writes = 1 /\ ~fut[t].read
        /\ lease[u] # Nil

\* C12: AsyncCommand, AsyncMultiCommand and AsyncTransaction return their Future
\* without waiting for a connection: a caller can always make the call, also
\* when every connection of the pool is leased, and the Future is in the
\* caller's hands before the spawned work has asked the pool for anything; the
\* waiting for a connection is the spawned work's, at its pull.
C12_AsyncReturnsWithoutWaiting ==
    \A t \in Threads :
        /\ (Free(t) /\ ~Crashed) =>
                /\ \A cmd \in Cmds : ENABLED AsyncCommand(t, cmd)
                /\ ENABLED AsyncMultiCommand(t)
                /\ ENABLED AsyncTransaction(t)
        /\ (async[t] /\ pc[t] = "pull") =>
                /\ fut[t].made /\ fut[t].writes = 0
                /\ attempts[t] = 0 /\ pulls[t] = 0 /\ lease[t] = Nil

\* every connection of the pool is leased, and an Async* call has returned its
\* Future: its spawned work waits at the pull
C12_Witness ==
    \E t \in Threads :
        /\ async[t] /\ pc[t] = "pull" /\ fut[t].made
        /\ PoolEmpty
        /\ Cardinality(Leases) = PoolSize

\* the threads that hold a lease on connection c
Holders(c) == {t \in Threads : lease[t] = c}

C13_OneHolder ==
    \A c \in AllConns :
        Cardinality(Holders(c)) + idle[c] + (IF c \in dedicated THEN 1 ELSE 0) <= 1

C13_AcquireAfterRelease ==
    \A u \in Threads :
        (lease[u] = Nil /\ lease'[u] # Nil) =>
            /\ Holders(lease'[u]) = {}
            /\ PoolSize = 1 => Leases = {}

\* C13: a connection is never held by two operations at the same time: each
\* connection is idle in the pool, leased to one caller or dedicated to a
\* subscription, and a call acquires a connection only when no call holds it;
\* with pool size 1 the second of two concurrent Command calls acquires the
\* connection only after the first has released it.
C13_NeverShared == []C13_OneHolder /\ [][C13_AcquireAfterRelease]_vars

\* pool size 1 and two concurrent Command calls: one holds the connection, the
\* other is at its pull
C13_Witness ==
    \E t, u \in Threads :
        /\ PoolSize = 1
        /\ op[t] = "Command" /\ lease[t] # Nil /\ pc[t] \in {"command", "push"}
        /\ op[u] = "Command" /\ pc[u] = "pull"

\* Subscription has returned an error to thread t
SubscriptionFailed(t) == op[t] = "Subscription" /\ pc[t] = "ret" /\ r[t].err # NoErr

C14_ErrorAndNothingWithdrawn ==
    \A t \in Threads :
        /\ SubscriptionFailed(t) =>
                /\ r[t].value = NoValue
                /\ r[t].err \in {SubErr, AcqErr}
                /\ conn[t] = Nil /\ lease[t] = Nil
                /\ pushes[t] = pulls[t] /\ strays[t] = 0
        /\ (SubscriptionFailed(t) /\ seq.live /\ seq.who = t) => IdleCount = seq.base

C14_FailedHandshakeGivesBack ==
    \A t \in Threads :
        (pc[t] = "handshake" /\ pc'[t] = "subret" /\ r'[t].err # NoErr) =>
            /\ r'[t].err = SubErr
            /\ dedicated' = dedicated
            /\ idle' = [idle EXCEPT ![conn[t]] = @ + 1]

\* C14: if the subscribe handshake fails, Subscription returns a recoverable
\* error (an error value, no panic) and no subscription object, and leaves no
\* withdrawn connection behind: the failing handshake gives the connection back
\* and dedicates none, and after a failed call that ran alone the pool's idle
\* count is what it was before the call.
C14_FailedHandshakeLeavesNothing ==
    []C14_ErrorAndNothingWithdrawn /\ [][C14_FailedHandshakeGivesBack]_vars

\* a Subscription that ran alone has returned the handshake error, after it
\* had withdrawn a connection
C14_Witness ==
    \E t \in Threads :
        /\ SubscriptionFailed(t) /\ r[t].err = SubErr
        /\ pulls[t] = 1
        /\ seq.live /\ seq.who = t

\* the handler invocations with message m
Invocations(m) == {i \in 1..Len(handled) : handled[i] = m}

C15_OnceAndInOrder ==
    /\ \A m \in Messages : Cardinality(Invocations(m)) <= 1
    /\ \A i \in 1..Len(inbound) : Invocations(inbound[i]) = {}
    /\ \A ch \in Channels :
            \A i \in 1..Len(OnChannel(handled, ch)) : OnChannel(handled, ch)[i].n = i

C15_EveryMessageHandled ==
    \A m \in Messages :
        (\E i \in 1..Len(inbound) : inbound[i] = m) ~> (Cardinality(Invocations(m)) = 1)

\* C15: on a live subscription every inbound message invokes the handler exactly
\* once (never twice, and eventually once), and the handler sees the messages
\* of one channel in their arrival order: the first before the second, also
\* while Command and Transaction calls run on other connections.
C15_DeliveredOnceInOrder == []C15_OnceAndInOrder /\ C15_EveryMessageHandled

\* the handler has been invoked with the two messages of a channel, a message of
\* the other channel arrived between them, and a Transaction is holding another
\* connection
C15_Witness ==
    /\ OnChannel(handled, "news") = << [channel |-> "news", n |-> 1],
                                       [channel |-> "news", n |-> 2] >>
    /\ Len(handled) = 3
    /\ handled[2].channel = "jobs"
    /\ \E t \in Threads : op[t] = "Transaction" /\ lease[t] # Nil

C16_NothingReturnedOrWithdrawn ==
    \A t \in Threads :
        (op[t] = "Subscription" /\ arg[t] = "nil") =>
            /\ pc[t] = "panic"
            /\ r[t] = EmptyReply
            /\ attempts[t] = 0 /\ pulls[t] = 0 /\ lease[t] = Nil /\ conn[t] = Nil

C16_PanicLeavesThePool ==
    /\ (~Crashed /\ Crashed') => UNCHANGED poolVars
    /\ Crashed => Crashed'

\* C16: Subscription(nil) panics before any connection is withdrawn from the
\* pool: newSubscription is not called, the panicking step leaves the pool and
\* its connections as they were, no error value (nothing at all) is returned,
\* and the panic is final.
C16_NilHandlerPanicsFirst ==
    []C16_NothingReturnedOrWithdrawn /\ [][C16_PanicLeavesThePool]_vars

\* Subscription(nil) has panicked on a client whose pool had an idle connection
\* to withdraw
C16_Witness ==
    \E t \in Threads :
        /\ op[t] = "Subscription" /\ arg[t] = "nil" /\ pc[t] = "panic"
        /\ IdleCount >= 1
        /\ dedicated = {}

\* checkConfiguration has returned
Checked == ncpc \in {"client", "pool", "done"}

\* C17: the empty Configuration yields address 127.0.0.1:6379, database index 0
\* and pool size 10; for every input that does not set both address and path a
\* negative database index becomes 0, a non-positive pool size becomes 10, the
\* default address is filled in only when address and path are both empty, and
\* the effective configuration has Database >= 0, PoolSize >= 1 and exactly one
\* of address and path non-empty.
C17_ConfigurationDefaulting ==
    Checked =>
        /\ ~(given.Address # "" /\ given.Path # "")
        /\ given = [Address |-> "", Path |-> "", Database |-> 0, PoolSize |-> 0] =>
                conf = [Address |-> "127.0.0.1:6379", Path |-> "", Database |-> 0,
                        PoolSize |-> 10]
        /\ conf.Database = (IF given.Database < 0 THEN 0 ELSE given.Database)
        /\ conf.PoolSize = (IF given.PoolSize <= 0 THEN 10 ELSE given.PoolSize)
        /\ conf.Address = (IF given.Address = "" /\ given.Path = ""
                           THEN "127.0.0.1:6379" ELSE given.Address)
        /\ conf.Path = given.Path
        /\ conf.Database >= 0
        /\ conf.PoolSize >= 1
        /\ (conf.Address # "") # (conf.Path # "")

\* NewClient has returned a Client for the empty Configuration
C17_Witness ==
    /\ ncpc = "done" /\ client.made /\ client.pool
    /\ given = EmptyConfiguration
    /\ conf.PoolSize = 10 /\ conf.Address = "127.0.0.1:6379"

C18_NothingCreated ==
    /\ (given.Address # "" /\ given.Path # "") =>
            /\ ncpc \in {"check", "panic"}
            /\ ~client.made /\ ~client.pool
            /\ conf = given
    /\ ncpc = "panic" => given.Address # "" /\ given.Path # ""
    /\ client.made => Checked
    /\ client.pool => client.made

C18_PanicIsFatal ==
    /\ ncpc = "panic" => ncpc' = "panic"
    /\ (ncpc = "check" /\ given.Address # "" /\ given.Path # "") => ncpc' = "panic"

\* C18: a Configuration with both address and path set makes NewClient panic,
\* and the validation comes before anything is created: no Client and no pool
\* exist then, the configuration is left as it was given, and the panic is final.
C18_BothSetPanicsFirst == []C18_NothingCreated /\ [][C18_PanicIsFatal]_vars

\* NewClient has panicked on a Configuration with address and path set whose
\* database index and pool size would have been defaulted
C18_Witness ==
    /\ ncpc = "panic"
    /\ given.Address # "" /\ given.Path # ""
    /\ given.Database < 0 /\ given.PoolSize <= 0

C19_LeasedStaysOpen ==
    \A c \in AllConns :
        /\ (idle[c] > 0 \/ Holders(c) # {}) => closed[c] = 0
        /\ closed[c] <= 1
        /\ \A t \in Threads :
                (op[t] = "Close" /\ \E u \in Threads \ {t} : lease[u] = c)
                    => closes[t] < PoolSize

C19_PushedBackUnclosed ==
    \A u \in Threads :
        (op[u] \in LeasingOps /\ pushes'[u] = pushes[u] + 1) =>
            /\ closed'[conn[u]] = 0
            /\ idle'[conn[u]] = idle[conn[u]] + 1

C20_ClosesWhatItPulled ==
    /\ \A c \in AllConns : closed[c] <= 1
    /\ \A t \in Threads :
            op[t] = "Close" =>
                /\ pushes[t] = 0 /\ strays[t] = 0
                /\ closes[t] <= pulls[t]
                /\ pulls[t] <= PoolSize
                /\ poolUsage[t] = (IF pc[t] = "close" THEN pulls[t] - 1 ELSE pulls[t])
                /\ pc[t] # "close" => conn[t] = Nil /\ lease[t] = Nil

C20_NilCountsButIsNotClosed ==
    \A t \in Threads :
        (op[t] = "Close" /\ pc[t] = "close" /\ pc'[t] \in {"pull", "ret"}) =>
            /\ poolUsage'[t] = poolUsage[t] + 1
            /\ idle' = idle
            /\ IF conn[t] = Nil
               THEN closes'[t] = closes[t] /\ closed' = closed
               ELSE closes'[t] = closes[t] + 1
                    /\ closed' = [closed EXCEPT ![conn[t]] = @ + 1]

\* C20: Close never pushes to the pool what it pulled and closes each
\* connection it pulled once at most; a pull that succeeds without a
\* connection counts toward poolUsage and causes no close: close invocations
\* <= successful pulls <= PoolSize.
C20_CloseNeverReleases == []C20_ClosesWhatItPulled /\ [][C20_NilCountsButIsNotClosed]_vars

\* Close has returned after PoolSize = 2 successful pulls, one of which gave
\* no connection: one close invocation
C20_Witness ==
    \E t \in Threads :
        /\ op[t] = "Close" /\ pc[t] = "ret"
        /\ PoolSize = 2 /\ pulls[t] = 2 /\ poolUsage[t] = 2
        /\ closes[t] = 1

====
